---- MODULE Spec2Model ----
(***************************************************************************)
(* A model of the FolderBrowser component of copier                        *)
(* (src/src/components/folder-browser.tsx): the directory scan, the        *)
(* selection model and the content concatenator, with the React state of   *)
(* the component as the variables and one action per handler or per        *)
(* resumption of an async handler.                                         *)
(*                                                                         *)
(* Strings are sequences of tokens.  A token is either one whitespace      *)
(* character (" " or "\n"), the separator "/", or an atom of text that     *)
(* holds no whitespace and no "/" (a file name, a word of content).        *)
(* Concatenation, startsWith, equality and trim on such sequences are what *)
(* they are on the JavaScript strings they stand for.                      *)
(***************************************************************************)
EXTENDS Integers, Sequences, FiniteSets, TLC

VARIABLES
  supported,           \* isFileSystemAccessSupported ('showDirectoryPicker' in window)
  directoryStructure,  \* useState<DirectoryStructure>: keys in insertion order
  selectedItems,       \* useState<FileItem[]>
  outputContent,       \* useState<string>
  isProcessing,        \* useState(false)
  rootPath,            \* useState<string>
  expandedFolders,     \* useState<Set<string>>
  closureStructure,    \* directoryStructure as closed over by the memoized
                       \* toggleItemSelection / processSelectedFiles callbacks
  scans,               \* scanDirectory calls in flight: their pending listing updates
  scanFailure,         \* the enumeration that failed in the scan of the last pick
  proc,                \* the processSelectedFiles call in flight (with the files
                       \* that are gone from the disk while it runs), or NoProc
  picks,               \* folders picked so far
  toggles,             \* toggleItemSelection calls so far
  processCalls,        \* processSelectedFiles calls started so far
  last                 \* the handler that ran last: its argument, the notices
                       \* (toast.info, toast.error) it raised, and the
                       \* selectedItems it found

vars == <<supported, directoryStructure, selectedItems, outputContent,
          isProcessing, rootPath, expandedFolders, closureStructure, scans,
          scanFailure, proc, picks, toggles, processCalls, last>>

(***************************************************************************)
(* Bounds of the model.                                                    *)
(***************************************************************************)
\* A session of one pick has up to MaxToggles toggles; a session in which a
\* folder is picked again has up to MaxRepicks picks and MaxRepickToggles toggles.
MaxPicks == 1
MaxToggles == 4
MaxRepicks == 2
MaxRepickToggles == 1
MaxProcessCalls == 1
\* The sessions explored under fairness have one pick and up to
\* MaxFairToggles toggles.
MaxFairToggles == 2

WithinBounds(p, t) ==
  \/ p <= MaxPicks /\ t <= MaxToggles
  \/ p <= MaxRepicks /\ t <= MaxRepickToggles

(***************************************************************************)
(* The disk.  The user can pick proj, or the folder sub inside proj/t.     *)
(*   proj/  t/ sub/ y.txt ("B\n")                                          *)
(*             x.txt ("A")                                                 *)
(*          sub/ (empty)                                                   *)
(* proj holds two directories of the same name, sub.                       *)
(***************************************************************************)
\* an optional field of a FileItem that is absent (handle?, file?)
None == 0
Nodes == 1 .. 6
Roots == {1, 3}

NodeName == <<"proj", "t", "sub", "y.txt", "x.txt", "sub">>

NodeKind == <<"directory", "directory", "directory", "file", "file", "directory">>

\* entries(): the children of a directory, in the order the directory API yields them
NodeChildren == <<(<<2, 6>>), (<<3, 5>>), (<<4>>), (<<>>), (<<>>), (<<>>)>>

\* File.text(): the content of a file
NodeText == <<(<<>>), (<<>>), (<<>>), (<<"B", "\n">>), (<<"A">>), (<<>>)>>

\* the files that may be gone from the disk when they are read
Fragile == {4}

\* the directories whose enumeration may fail
Unlistable == {2, 3}

ChildSet(dir) == {NodeChildren[dir][i] : i \in 1 .. Len(NodeChildren[dir])}

\* everything reachable from dir by child enumeration
RECURSIVE ReachableFrom(_)
ReachableFrom(dir) ==
  ChildSet(dir) \cup UNION {ReachableFrom(k) : k \in ChildSet(dir)}

\* for await (... of directoryHandle.entries()) throws: the enumeration of dir
\* yields its first `after` entries and fails in place of the next
NoFailure == [dir |-> None, after |-> 0]

EnumerationFailures ==
  {NoFailure} \cup
  UNION {{[dir |-> d, after |-> k] : k \in 0 .. Len(NodeChildren[d])} :
           d \in Unlistable}

\* the outcomes of the enumerations made from the directories tops: all
\* succeed, or one of them fails at its first entry or part-way through
FailuresBelow(tops) ==
  {f \in EnumerationFailures :
     \/ f = NoFailure
     \/ /\ \E top \in tops : f.dir \in {top} \cup ReachableFrom(top)
        /\ f.after < Len(NodeChildren[f.dir]) \/ f.after = 0}

\* an enumeration that a failure further down cuts short as well
YieldedUntilFailure(directoryHandle, failure) ==
  LET kids == NodeChildren[directoryHandle]
      Holds(i) == failure.dir \in {kids[i]} \cup ReachableFrom(kids[i])
  IN IF failure.dir = directoryHandle
       THEN SubSeq(kids, 1, failure.after)
       ELSE IF \E i \in 1 .. Len(kids) : Holds(i)
              THEN SubSeq(kids, 1, CHOOSE i \in 1 .. Len(kids) : Holds(i))
              ELSE kids

\* the entries an enumeration yields before it ends or fails
Yielded(directoryHandle, failure) ==
  IF failure.dir = directoryHandle
    THEN SubSeq(NodeChildren[directoryHandle], 1, failure.after)
    ELSE NodeChildren[directoryHandle]

\* the message of the error a failed read throws
ReadError == <<"gone">>

(***************************************************************************)
(* Strings.                                                                *)
(***************************************************************************)
Whitespace == {" ", "\n"}

\* String.prototype.startsWith
StartsWith(s, prefix) ==
  /\ Len(prefix) <= Len(s)
  /\ SubSeq(s, 1, Len(prefix)) = prefix

RECURSIVE TrimStart(_)
TrimStart(s) ==
  IF s # <<>> /\ Head(s) \in Whitespace THEN TrimStart(Tail(s)) ELSE s

RECURSIVE TrimEnd(_)
TrimEnd(s) ==
  IF s # <<>> /\ s[Len(s)] \in Whitespace
    THEN TrimEnd(SubSeq(s, 1, Len(s) - 1))
    ELSE s

\* a trim that forgets the leading whitespace
TrimEndOnly(s) == TrimEnd(s)

\* String.prototype.trim
Trim(s) == TrimEnd(TrimStart(s))

\* `${a}/${b}`
JoinPath(a, b) == a \o <<"/">> \o b

\* `\n\n=== ${path} ===\n`
Header(path) == <<"\n", "\n", "===", " ">> \o path \o <<" ", "===", "\n">>

\* a marker that leaves the reason out
ErrorMarkerUnknown(reason) ==
  <<"[Error", " ", "reading", " ", "file:", " ", "Unknown", " ", "error", "]">>

\* `[Error reading file: ${error.message}]`
ErrorMarker(reason) ==
  <<"[Error", " ", "reading", " ", "file:", " ">> \o reason \o <<"]">>

(***************************************************************************)
(* FileItem and DirectoryStructure.                                        *)
(***************************************************************************)
\* interface FileItem; handle and file are nodes of the disk, or None
FileItem(name, type, path, handle, file) ==
  [name |-> name, type |-> type, selected |-> FALSE, path |-> path,
   handle |-> handle, file |-> file]

\* key in directoryStructure
HasKey(structure, key) ==
  \E i \in 1 .. Len(structure) : structure[i].key = key

\* directoryStructure[key] || []
getChildrenForPath(structure, parentPath) ==
  IF HasKey(structure, parentPath)
    THEN LET i == CHOOSE j \in 1 .. Len(structure) : structure[j].key = parentPath
         IN structure[i].items
    ELSE <<>>

\* structure[key] = items: a known key keeps its place, a new key goes last
SetKey(structure, key, items) ==
  IF HasKey(structure, key)
    THEN [i \in 1 .. Len(structure) |->
            IF structure[i].key = key
              THEN [key |-> key, items |-> items]
              ELSE structure[i]]
    ELSE Append(structure, [key |-> key, items |-> items])

\* { ...prev, ...newStructure }
RECURSIVE MergeStructure(_, _)
MergeStructure(prev, newStructure) ==
  IF newStructure = <<>>
    THEN prev
    ELSE MergeStructure(SetKey(prev, Head(newStructure).key, Head(newStructure).items),
                        Tail(newStructure))

(***************************************************************************)
(* Tree Scanner (handle-based).                                            *)
(***************************************************************************)
\* const itemPath = currentPath === directoryHandle.name ? name : `${currentPath}/${name}`
ItemPath(directoryHandle, currentPath, name) ==
  IF currentPath = <<NodeName[directoryHandle]>>
    THEN <<name>>
    ELSE JoinPath(currentPath, <<name>>)

\* The setDirectoryStructure updates one scanDirectory call makes, in the order
\* it makes them: those of each subdirectory as it is met, then its own level.
\* When its enumeration throws, the outer catch skips its own level; the
\* caller goes on (the call returns normally).
RECURSIVE scanDirectory(_, _, _)
scanDirectory(directoryHandle, currentPath, failure) ==
  LET kids == Yielded(directoryHandle, failure)
      PathOf(n) == ItemPath(directoryHandle, currentPath, NodeName[n])
      items == [i \in 1 .. Len(kids) |->
                  FileItem(NodeName[kids[i]], NodeKind[kids[i]], PathOf(kids[i]),
                           kids[i], None)]
      RECURSIVE Below(_)
      Below(i) ==
        IF i > Len(kids)
          THEN <<>>
          ELSE (IF NodeKind[kids[i]] = "directory"
                  THEN scanDirectory(kids[i], PathOf(kids[i]), failure)
                  ELSE <<>>) \o Below(i + 1)
  IN Below(1) \o (IF failure.dir = directoryHandle
                    THEN <<>>
                    ELSE <<[key |-> currentPath, items |-> items]>>)

(***************************************************************************)
(* Upload fallback: the listing built from the uploaded files.             *)
(***************************************************************************)
\* input.files: the files under a folder with their webkitRelativePath split at '/'
RECURSIVE UploadedFiles(_, _)
UploadedFiles(dir, parts) ==
  LET kids == NodeChildren[dir]
      RECURSIVE From(_)
      From(i) ==
        IF i > Len(kids)
          THEN <<>>
          ELSE (IF NodeKind[kids[i]] = "directory"
                  THEN UploadedFiles(kids[i], Append(parts, NodeName[kids[i]]))
                  ELSE <<[parts |-> Append(parts, NodeName[kids[i]]), file |-> kids[i]]>>)
               \o From(i + 1)
  IN From(1)

ensureDir(newStructure, dirPath) ==
  IF HasKey(newStructure, dirPath)
    THEN newStructure
    ELSE Append(newStructure, [key |-> dirPath, items |-> <<>>])

addChildIfMissing(newStructure, parentPath, child) ==
  LET st == ensureDir(newStructure, parentPath)
      kids == getChildrenForPath(st, parentPath)
      exists == \E i \in 1 .. Len(kids) : kids[i].path = child.path
  IN IF exists THEN st ELSE SetKey(st, parentPath, Append(kids, child))

\* for (let i = 1; i < parts.length - 1; i++): the directories above one file
RECURSIVE AddDirectories(_, _, _, _)
AddDirectories(newStructure, parts, i, currPath) ==
  IF i >= Len(parts)
    THEN [structure |-> newStructure, currPath |-> currPath]
    ELSE LET nextPath == JoinPath(currPath, <<parts[i]>>)
             st == addChildIfMissing(newStructure, currPath,
                     FileItem(parts[i], "directory", nextPath, None, None))
         IN AddDirectories(ensureDir(st, nextPath), parts, i + 1, nextPath)

\* the body of for (const f of files)
AddUploadedFile(newStructure, root, f) ==
  LET parts == IF f.parts[1] # root THEN <<root>> \o f.parts ELSE f.parts
      above == AddDirectories(newStructure, parts, 2, <<parts[1]>>)
      fileName == parts[Len(parts)]
  IN addChildIfMissing(above.structure, above.currPath,
       FileItem(fileName, "file", JoinPath(above.currPath, <<fileName>>), None, f.file))

RECURSIVE AddUploadedFiles(_, _, _)
AddUploadedFiles(newStructure, root, files) ==
  IF files = <<>>
    THEN newStructure
    ELSE AddUploadedFiles(AddUploadedFile(newStructure, root, Head(files)), root,
                          Tail(files))

\* the newStructure of onChange
FallbackStructure(files) ==
  LET root == Head(files).parts[1]
  IN AddUploadedFiles(ensureDir(<<>>, <<root>>), root, files)

(***************************************************************************)
(* Presentation: the entries the tree view offers for toggling.            *)
(***************************************************************************)
\* renderFileItem over a list of items: each item, and under an expanded
\* directory that has children, its children
RECURSIVE renderFileItem(_, _, _)
renderFileItem(items, structure, expanded) ==
  UNION { {items[i]} \cup
          (IF /\ items[i].type = "directory"
              /\ items[i].path \in expanded
              /\ getChildrenForPath(structure, items[i].path) # <<>>
             THEN renderFileItem(getChildrenForPath(structure, items[i].path),
                                 structure, expanded)
             ELSE {})
        : i \in 1 .. Len(items) }

\* rootPath && directoryStructure[rootPath] && directoryStructure[rootPath].map(...)
RenderedItems ==
  IF rootPath # <<>> /\ HasKey(directoryStructure, rootPath)
    THEN renderFileItem(getChildrenForPath(directoryStructure, rootPath),
                        directoryStructure, expandedFolders)
    ELSE {}

\* Object.keys(directoryStructure).length > 0: the buttons and the tree are shown
ControlsShown == Len(directoryStructure) > 0

(***************************************************************************)
(* Selection Model.                                                        *)
(***************************************************************************)
\* selectedItems.some(selected => selected.path === item.path)
IsSelected(selected, path) ==
  \E i \in 1 .. Len(selected) : selected[i].path = path

Keep(s, item) == s.path # item.path

\* a filter that forgets the descendants
KeepOutsideFolderOnly(s, item) == s.path # item.path

KeepOutside(s, item) ==
  s.path # item.path /\ ~StartsWith(s.path, item.path \o <<"/">>)

\* prev.filter(selected => selected.path !== item.path)
FilterItem(prev, item) == SelectSeq(prev, LAMBDA s : Keep(s, item))

\* prev.filter(selected => selected.path !== item.path &&
\*                         !selected.path.startsWith(item.path + '/'))
FilterFolder(prev, item) == SelectSeq(prev, LAMBDA s : KeepOutside(s, item))

\* the items one listing key gives to getAllChildItems
ChildItemsOf(items, folderPath) ==
  LET under == SelectSeq(items, LAMBDA it : StartsWith(it.path, folderPath \o <<"/">>))
  IN [i \in 1 .. Len(under) |-> [under[i] EXCEPT !.selected = TRUE]]

RECURSIVE getAllChildItems(_, _)
getAllChildItems(structure, folderPath) ==
  IF structure = <<>>
    THEN <<>>
    ELSE LET e == Head(structure)
         IN (IF StartsWith(e.key, folderPath \o <<"/">>) \/ e.key = folderPath
               THEN ChildItemsOf(e.items, folderPath)
               ELSE <<>>)
            \o getAllChildItems(Tail(structure), folderPath)

\* a toggle whose selection of a directory keeps what was selected under it
ToggledWithoutFilter(prev, item, structure) ==
  IF IsSelected(prev, item.path)
    THEN IF item.type = "directory"
           THEN FilterFolder(prev, item)
           ELSE FilterItem(prev, item)
    ELSE IF item.type = "directory"
           THEN prev \o <<[item EXCEPT !.selected = TRUE]>>
                  \o getAllChildItems(structure, item.path)
           ELSE Append(prev, [item EXCEPT !.selected = TRUE])

\* a toggle whose deselection of a directory leaves its descendants selected
ToggledLeavingChildren(prev, item, structure) ==
  IF IsSelected(prev, item.path)
    THEN FilterItem(prev, item)
    ELSE IF item.type = "directory"
           THEN FilterFolder(prev, item)
                  \o <<[item EXCEPT !.selected = TRUE]>>
                  \o getAllChildItems(structure, item.path)
           ELSE Append(prev, [item EXCEPT !.selected = TRUE])

\* the selectedItems toggleItemSelection(item) sets; structure is the listing
\* its getAllChildItems closes over
Toggled(prev, item, structure) ==
  IF IsSelected(prev, item.path)
    THEN IF item.type = "directory"
           THEN FilterFolder(prev, item)
           ELSE FilterItem(prev, item)
    ELSE IF item.type = "directory"
           THEN FilterFolder(prev, item)
                  \o <<[item EXCEPT !.selected = TRUE]>>
                  \o getAllChildItems(structure, item.path)
           ELSE Append(prev, [item EXCEPT !.selected = TRUE])

(***************************************************************************)
(* Content Concatenator.                                                   *)
(***************************************************************************)
\* one block: the header, then the content or the error marker
Block(path, ok, content, reason) ==
  Header(path) \o (IF ok THEN content ELSE ErrorMarker(reason))

\* await fileHandle.getFile(); await file.text()  -- or the error it throws
ReadBlock(path, node, broken) ==
  Block(path, node \notin broken, NodeText[node], ReadError)

\* when the enumeration throws, the outer catch returns the content so far
RECURSIVE processDirectory(_, _, _, _)
processDirectory(directoryHandle, basePath, broken, failure) ==
  LET kids == Yielded(directoryHandle, failure)
      RECURSIVE From(_)
      From(i) ==
        IF i > Len(kids)
          THEN <<>>
          ELSE LET itemPath == JoinPath(basePath, <<NodeName[kids[i]]>>)
               IN (IF NodeKind[kids[i]] = "file"
                     THEN ReadBlock(itemPath, kids[i], broken)
                     ELSE processDirectory(kids[i], itemPath, broken, failure))
                  \o From(i + 1)
  IN From(1)

RECURSIVE collectFileItemsUnderPath(_, _)
collectFileItemsUnderPath(structure, folderPath) ==
  IF structure = <<>>
    THEN <<>>
    ELSE LET e == Head(structure)
         IN (IF e.key = folderPath \/ StartsWith(e.key, folderPath \o <<"/">>)
               THEN SelectSeq(e.items, LAMBDA it :
                      it.type = "file" /\ StartsWith(it.path, folderPath \o <<"/">>))
               ELSE <<>>)
            \o collectFileItemsUnderPath(Tail(structure), folderPath)

\* const content = f.file ? await f.file.text() : ''
RECURSIVE ListedBlocks(_, _)
ListedBlocks(files, broken) ==
  IF files = <<>>
    THEN <<>>
    ELSE LET f == Head(files)
         IN (IF f.file # None
               THEN ReadBlock(f.path, f.file, broken)
               ELSE Block(f.path, TRUE, <<>>, <<>>))
            \o ListedBlocks(Tail(files), broken)

\* what one pass of for (const item of selectedItems) adds to combinedContent
ItemContent(item, structure, broken, failure) ==
  IF item.type = "file"
    THEN IF item.file # None
           THEN ReadBlock(item.path, item.file, broken)
           ELSE IF item.handle # None
                  THEN ReadBlock(item.path, item.handle, broken)
                  ELSE Block(item.path, FALSE, <<>>,
                             <<"No", " ", "readable", " ", "handle", " ", "for", " ", "file">>)
    ELSE IF item.handle # None
           THEN processDirectory(item.handle, item.path, broken, failure)
           ELSE ListedBlocks(collectFileItemsUnderPath(structure, item.path), broken)

(***************************************************************************)
(* The state machine.                                                      *)
(***************************************************************************)
NoItem == FileItem("", "none", <<>>, None, None)

\* no processSelectedFiles call is in flight
NoProc == [active |-> FALSE, selectedItems |-> <<>>, index |-> 1,
           combinedContent |-> <<>>, structure |-> <<>>, unreadable |-> {},
           unlistable |-> NoFailure]

Ran(op, item, toasts, prev) ==
  [op |-> op, item |-> item, toasts |-> toasts, prev |-> prev]

\* toast.info('Nothing to process', ...)
NothingToProcess == "Nothing to process"

Init ==
  /\ supported \in BOOLEAN
  /\ directoryStructure = <<>>
  /\ selectedItems = <<>>
  /\ outputContent = <<>>
  /\ isProcessing = FALSE
  /\ rootPath = <<>>
  /\ expandedFolders = {}
  /\ closureStructure = <<>>
  /\ scans = <<>>
  /\ scanFailure = NoFailure
  /\ proc = NoProc
  /\ picks = 0
  /\ toggles = 0
  /\ processCalls = 0
  /\ last = Ran("init", NoItem, <<>>, <<>>)

\* selectFolderFallback: onChange with the files of the uploaded folder
selectFolderFallback(folder) ==
  LET files == UploadedFiles(folder, <<NodeName[folder]>>)
  IN /\ files # <<>>
     /\ rootPath' = <<Head(files).parts[1]>>
     /\ directoryStructure' = FallbackStructure(files)
     /\ expandedFolders' = {<<Head(files).parts[1]>>}
     /\ scanFailure' = NoFailure
     /\ UNCHANGED scans

\* selectFolder: the user picks a folder.  Without the File System Access API
\* it is selectFolderFallback; with it, scanDirectory runs up to its first await
selectFolder(directoryHandle) ==
  /\ WithinBounds(picks + 1, toggles)
  /\ picks' = picks + 1
  /\ IF ~supported
       THEN selectFolderFallback(directoryHandle)
       ELSE /\ rootPath' = <<NodeName[directoryHandle]>>
            /\ expandedFolders' = {<<NodeName[directoryHandle]>>}
            /\ \E failure \in FailuresBelow({directoryHandle}) :
                 LET updates == scanDirectory(directoryHandle,
                                              <<NodeName[directoryHandle]>>, failure)
                 IN /\ scans' = IF updates = <<>> THEN scans
                                                  ELSE Append(scans, updates)
                    /\ scanFailure' = failure
            /\ UNCHANGED directoryStructure
  /\ last' = Ran("selectFolder", NoItem, <<>>, <<>>)
  /\ UNCHANGED <<supported, selectedItems, outputContent, isProcessing,
                 closureStructure, proc, toggles, processCalls>>

\* a scanDirectory call in flight reaches the end of one directory level:
\* setDirectoryStructure(prev => ({ ...prev, ...newStructure }))
setDirectoryStructure(i) ==
  /\ i \in 1 .. Len(scans)
  /\ directoryStructure' = MergeStructure(directoryStructure, <<Head(scans[i])>>)
  /\ scans' = IF Tail(scans[i]) = <<>>
                THEN SubSeq(scans, 1, i - 1) \o SubSeq(scans, i + 1, Len(scans))
                ELSE [scans EXCEPT ![i] = Tail(scans[i])]
  /\ last' = Ran("setDirectoryStructure", NoItem, <<>>, <<>>)
  /\ UNCHANGED <<supported, selectedItems, outputContent, isProcessing,
                 rootPath, expandedFolders, closureStructure, scanFailure, proc,
                 picks, toggles, processCalls>>

toggleFolderExpansion(item) ==
  /\ item \in RenderedItems
  /\ item.type = "directory"
  /\ expandedFolders' = IF item.path \in expandedFolders
                          THEN expandedFolders \ {item.path}
                          ELSE expandedFolders \cup {item.path}
  /\ last' = Ran("toggleFolderExpansion", NoItem, <<>>, <<>>)
  /\ UNCHANGED <<supported, directoryStructure, selectedItems,
                 outputContent, isProcessing, rootPath, closureStructure, scans, scanFailure, proc,
                 picks, toggles, processCalls>>

\* toggleItemSelection, then the render that follows: selectedItems is a new
\* array, so the callbacks memoized on [selectedItems] are made anew and close
\* over the listing of that render
toggleItemSelection(item) ==
  /\ item \in RenderedItems
  /\ WithinBounds(picks, toggles + 1)
  /\ toggles' = toggles + 1
  /\ selectedItems' = Toggled(selectedItems, item, closureStructure)
  /\ closureStructure' = directoryStructure
  /\ last' = Ran("toggleItemSelection", item, <<>>, selectedItems)
  /\ UNCHANGED <<supported, directoryStructure, outputContent,
                 isProcessing, rootPath, expandedFolders, scans, scanFailure, proc, picks,
                 processCalls>>

\* an empty-selection branch that goes on to publish the empty document
NothingSelectedPublishes ==
  /\ last' = Ran("processSelectedFiles", NoItem, <<NothingToProcess>>, <<>>)
  /\ outputContent' = <<>>
  /\ UNCHANGED <<isProcessing, proc, processCalls>>

\* the directory handles a processSelectedFiles call starts from
SelectedHandles ==
  {selectedItems[i].handle : i \in {j \in 1 .. Len(selectedItems) :
     selectedItems[j].type = "directory" /\ selectedItems[j].handle # None}}

\* if (selectedItems.length === 0) { toast.info(...); return }
NothingSelected ==
  /\ last' = Ran("processSelectedFiles", NoItem, <<NothingToProcess>>, <<>>)
  /\ UNCHANGED <<outputContent, isProcessing, proc, processCalls>>

\* processSelectedFiles up to its first await.  With a selection, it is the
\* Process button that calls it (shown with the listing, disabled while
\* processing); without one the button is disabled and the handler's own
\* check answers a direct call.
processSelectedFiles ==
  /\ IF selectedItems = <<>>
       THEN NothingSelected
       ELSE /\ ControlsShown
            /\ ~isProcessing
            /\ processCalls < MaxProcessCalls
            /\ processCalls' = processCalls + 1
            /\ isProcessing' = TRUE
            /\ \E gone \in SUBSET Fragile, failure \in FailuresBelow(SelectedHandles) :
                 proc' = [active |-> TRUE, selectedItems |-> selectedItems,
                          index |-> 1, combinedContent |-> <<>>,
                          structure |-> closureStructure, unreadable |-> gone,
                          unlistable |-> failure]
            /\ last' = Ran("processSelectedFiles", NoItem, <<>>, <<>>)
            /\ UNCHANGED outputContent
  /\ UNCHANGED <<supported, directoryStructure, selectedItems, rootPath,
                 expandedFolders, closureStructure, scans, scanFailure, picks, toggles>>

\* a loop whose end forgets setIsProcessing(false)
processItemKeepingFlag ==
  /\ proc.active
  /\ LET item == proc.selectedItems[proc.index]
         combinedContent == proc.combinedContent
                              \o ItemContent(item, proc.structure, proc.unreadable,
                                             proc.unlistable)
     IN IF proc.index = Len(proc.selectedItems)
          THEN /\ outputContent' = Trim(combinedContent)
               /\ proc' = NoProc
               /\ UNCHANGED isProcessing
          ELSE /\ proc' = [proc EXCEPT !.index = proc.index + 1,
                                       !.combinedContent = combinedContent]
               /\ UNCHANGED <<outputContent, isProcessing>>
  /\ last' = Ran("processItem", NoItem, <<>>, <<>>)
  /\ UNCHANGED <<supported, directoryStructure, selectedItems, rootPath,
                 expandedFolders, closureStructure, scans, scanFailure, picks,
                 toggles, processCalls>>

\* the processSelectedFiles call in flight takes one pass of its loop; after
\* the last item: setOutputContent(combinedContent.trim()), setIsProcessing(false)
processItem ==
  /\ proc.active
  /\ LET item == proc.selectedItems[proc.index]
         combinedContent == proc.combinedContent
                              \o ItemContent(item, proc.structure, proc.unreadable,
                                             proc.unlistable)
     IN IF proc.index = Len(proc.selectedItems)
          THEN /\ outputContent' = Trim(combinedContent)
               /\ isProcessing' = FALSE
               /\ proc' = NoProc
          ELSE /\ proc' = [proc EXCEPT !.index = proc.index + 1,
                                       !.combinedContent = combinedContent]
               /\ UNCHANGED <<outputContent, isProcessing>>
  /\ last' = Ran("processItem", NoItem, <<>>, <<>>)
  /\ UNCHANGED <<supported, directoryStructure, selectedItems, rootPath,
                 expandedFolders, closureStructure, scans, scanFailure, picks, toggles,
                 processCalls>>

\* a clearSelection that also collapses the tree
clearSelectionCollapsing ==
  /\ ControlsShown
  /\ selectedItems' = <<>>
  /\ outputContent' = <<>>
  /\ expandedFolders' = {}
  /\ closureStructure' = directoryStructure
  /\ last' = Ran("clearSelection", NoItem, <<>>, selectedItems)
  /\ UNCHANGED <<supported, directoryStructure, isProcessing, rootPath,
                 scans, scanFailure, proc, picks, toggles, processCalls>>

\* setSelectedItems([]); setOutputContent('')
clearSelection ==
  /\ ControlsShown
  /\ selectedItems' = <<>>
  /\ outputContent' = <<>>
  /\ closureStructure' = directoryStructure
  /\ last' = Ran("clearSelection", NoItem, <<>>, selectedItems)
  /\ UNCHANGED <<supported, directoryStructure, isProcessing, rootPath,
                 expandedFolders, scans, scanFailure, proc, picks, toggles, processCalls>>

clearAll ==
  /\ ControlsShown
  /\ selectedItems' = <<>>
  /\ outputContent' = <<>>
  /\ directoryStructure' = <<>>
  /\ expandedFolders' = {}
  /\ rootPath' = <<>>
  /\ closureStructure' = <<>>
  /\ last' = Ran("clearAll", NoItem, <<>>, selectedItems)
  /\ UNCHANGED <<supported, isProcessing, scans, scanFailure, proc, picks, toggles,
                 processCalls>>

Next ==
  \/ \E directoryHandle \in Roots : selectFolder(directoryHandle)
  \/ \E i \in 1 .. Len(scans) : setDirectoryStructure(i)
  \/ \E item \in RenderedItems : toggleFolderExpansion(item)
  \/ \E item \in RenderedItems : toggleItemSelection(item)
  \/ processSelectedFiles
  \/ processItem
  \/ clearSelection
  \/ clearAll

Spec == Init /\ [][Next]_vars

\* every enumeration and every read of a processSelectedFiles call completes
\* or fails, so the loop of a call in flight goes on
FairNext == Next /\ picks' <= MaxPicks /\ toggles' <= MaxFairToggles

FairSpec == Init /\ [][FairNext]_vars /\ WF_vars(processItem)

(***************************************************************************)
(* The disk as the properties below speak of it.                           *)
(***************************************************************************)
ParentOf(n) ==
  CHOOSE p \in Nodes : \E i \in 1 .. Len(NodeChildren[p]) : NodeChildren[p][i] = n

\* the names from root (left out) down to n, joined by "/"
RECURSIVE NamesFrom(_, _)
NamesFrom(root, n) ==
  IF ParentOf(n) = root
    THEN <<NodeName[n]>>
    ELSE NamesFrom(root, ParentOf(n)) \o <<"/", NodeName[n]>>

DirectoriesFrom(root) ==
  {root} \cup {n \in ReachableFrom(root) : NodeKind[n] = "directory"}

\* the folder the user picked
ScanRoot == CHOOSE r \in Roots : <<NodeName[r]>> = rootPath

\* a handle-based scan of the picked folder has run to its end, no
\* enumeration having failed
ScanCompleted ==
  /\ supported
  /\ picks = 1
  /\ scans = <<>>
  /\ scanFailure = NoFailure
  /\ rootPath # <<>>
  /\ HasKey(directoryStructure, rootPath)

\* the places (key index, item index) of a listing, and the entries at them
Places(structure) ==
  UNION {{<<k, i>> : i \in 1 .. Len(structure[k].items)} :
           k \in 1 .. Len(structure)}

EntryAt(structure, pl) == structure[pl[1]].items[pl[2]]

ListedEntries(structure) == {EntryAt(structure, pl) : pl \in Places(structure)}

HasPrefix(path, dirPath) ==
  /\ Len(path) > Len(dirPath)
  /\ \A i \in 1 .. Len(dirPath) : path[i] = dirPath[i]
  /\ path[Len(dirPath) + 1] = "/"

\* C1: after a handle-based scan every Entry of the listing has for its path
\* the names from the scan root down to it joined by "/", so no two entries
\* share a path and no two directories share a key of the listing.
C1_PathsFromScanRoot ==
  ScanCompleted =>
    /\ \A e \in ListedEntries(directoryStructure) :
         e.path = NamesFrom(ScanRoot, e.handle)
    /\ \A e1, e2 \in ListedEntries(directoryStructure) :
         e1.handle # e2.handle => e1.path # e2.path
    /\ Len(directoryStructure) = Cardinality(DirectoriesFrom(ScanRoot))

\* C2: once the scan of the root has completed, the listing holds exactly one
\* Entry for each file and subdirectory reachable from the root, and every
\* reachable directory has its own key holding exactly its immediate children.
C2_ListingIsTheTree ==
  ScanCompleted =>
    /\ \A n \in ReachableFrom(ScanRoot) :
         Cardinality({pl \in Places(directoryStructure) :
                        EntryAt(directoryStructure, pl).handle = n}) = 1
    /\ \A e \in ListedEntries(directoryStructure) :
         e.handle \in ReachableFrom(ScanRoot)
    /\ \E keyOf \in [DirectoriesFrom(ScanRoot) -> 1 .. Len(directoryStructure)] :
         /\ \A d1, d2 \in DirectoriesFrom(ScanRoot) :
              d1 # d2 => keyOf[d1] # keyOf[d2]
         /\ \A d \in DirectoriesFrom(ScanRoot) :
              LET items == directoryStructure[keyOf[d]].items
              IN /\ Len(items) = Len(NodeChildren[d])
                 /\ \A i \in 1 .. Len(items) : items[i].handle = NodeChildren[d][i]

\* the entries of the listing below a directory entry: by the handles where
\* the entries carry them, by the paths of the upload otherwise
ListedDescendants(structure, dir) ==
  {e \in ListedEntries(structure) :
     IF dir.handle # None
       THEN e.handle \in ReachableFrom(dir.handle)
       ELSE HasPrefix(e.path, dir.path)}

\* C3: a toggle of a directory that is not selected leaves the Selection Set
\* holding that directory and every descendant Entry the listing holds at the
\* time of the call, the first toggle after a scan included.
C3_SelectingTakesDescendants ==
  (/\ last.op = "toggleItemSelection"
   /\ last.item.type = "directory"
   /\ ~IsSelected(last.prev, last.item.path)) =>
    /\ IsSelected(selectedItems, last.item.path)
    /\ \A e \in ListedDescendants(directoryStructure, last.item) :
         IsSelected(selectedItems, e.path)

\* the last step deselected a directory
DeselectedFolder ==
  /\ last.op = "toggleItemSelection"
  /\ last.item.type = "directory"
  /\ IsSelected(last.prev, last.item.path)

\* C4: a toggle of a selected directory leaves the Selection Set without that
\* directory's path and without any path with prefix path + "/", and with
\* every other selected path in its previous relative order.
C4_DeselectingDropsDescendants ==
  DeselectedFolder =>
    LET Dropped(q) == q = last.item.path \/ HasPrefix(q, last.item.path)
    IN /\ \A i \in 1 .. Len(selectedItems) : ~Dropped(selectedItems[i].path)
       /\ selectedItems = SelectSeq(last.prev, LAMBDA it : ~Dropped(it.path))

\* a directory and one of its descendants were selected apart, another item
\* between them: the deselection took both and left the other
C4_Witness ==
  /\ DeselectedFolder
  /\ Len(last.prev) = 3
  /\ last.prev[1].path = last.item.path
  /\ HasPrefix(last.prev[3].path, last.item.path)
  /\ selectedItems = <<last.prev[2]>>

\* the step is the second of two toggles in a row of one directory that was
\* not selected before the first
DoubleToggle ==
  /\ last.op = "toggleItemSelection"
  /\ last.item.type = "directory"
  /\ ~IsSelected(last.prev, last.item.path)
  /\ last'.op = "toggleItemSelection"
  /\ last'.item = last.item
  /\ toggles' = toggles + 1

\* C5 as stated: for every Selection Set S and directory d not in S, selecting
\* d and at once deselecting it gives S again, also when S held descendants
\* of d.
C5_DoubleToggleRestores ==
  [][DoubleToggle => selectedItems' = last.prev]_vars

\* C5: for every Selection Set S that holds neither the directory d nor any
\* path with prefix d.path + "/", selecting d and at once deselecting it gives
\* S again.
C5_DoubleToggleRestoresDisjoint ==
  [][(/\ DoubleToggle
      /\ \A i \in 1 .. Len(last.prev) :
           ~HasPrefix(last.prev[i].path, last.item.path)) =>
       selectedItems' = last.prev]_vars

\* a directory was selected after another item, took a listed descendant with
\* it, and its deselection left that other item alone
C5_Witness ==
  /\ DeselectedFolder
  /\ toggles = 3
  /\ Len(last.prev) = 3
  /\ last.prev[2].path = last.item.path
  /\ HasPrefix(last.prev[3].path, last.item.path)
  /\ ~HasPrefix(last.prev[1].path, last.item.path)
  /\ selectedItems = <<last.prev[1]>>

(***************************************************************************)
(* The document a selection stands for.                                    *)
(***************************************************************************)
\* the files below a directory with their paths from base, depth first in
\* the order of enumeration, as far as the enumerations get
RECURSIVE DepthFirst(_, _, _)
DepthFirst(dir, base, failure) ==
  LET kids == Yielded(dir, failure)
      RECURSIVE Walk(_)
      Walk(i) ==
        IF i > Len(kids)
          THEN <<>>
          ELSE LET path == base \o <<"/", NodeName[kids[i]]>>
               IN (IF NodeKind[kids[i]] = "file"
                     THEN <<[path |-> path, node |-> kids[i]]>>
                     ELSE DepthFirst(kids[i], path, failure))
                  \o Walk(i + 1)
  IN Walk(1)

\* the files the listing of an upload holds below a path
ListedFilesUnder(structure, dirPath) ==
  {[path |-> e.path, node |-> e.file] :
     e \in {it \in ListedEntries(structure) :
              it.type = "file" /\ HasPrefix(it.path, dirPath)}}

Orderings(S) ==
  {o \in [1 .. Cardinality(S) -> S] :
     \A i, j \in 1 .. Cardinality(S) : i # j => o[i] # o[j]}

\* "\n\n=== <path> ===\n" and the content, or the error marker with the reason
ExpectedBlock(f, failed) ==
  <<"\n", "\n", "===", " ">> \o f.path \o <<" ", "===", "\n">>
    \o (IF f.node \in failed
          THEN <<"[Error", " ", "reading", " ", "file:", " ">> \o ReadError \o <<"]">>
          ELSE NodeText[f.node])

RECURSIVE BlocksOf(_, _)
BlocksOf(files, failed) ==
  IF Len(files) = 0
    THEN <<>>
    ELSE ExpectedBlock(files[1], failed)
           \o BlocksOf([i \in 1 .. Len(files) - 1 |-> files[i + 1]], failed)

\* the node a selected file is read from
NodeOf(item) == IF item.file # None THEN item.file ELSE item.handle

\* what one selected item may contribute: a file its block; a directory with
\* a handle the blocks of the files below it, depth first; a directory of an
\* upload the blocks of the files the listing holds below it
ItemDocuments(item, structure, failed, failure) ==
  IF item.type = "file"
    THEN {ExpectedBlock([path |-> item.path, node |-> NodeOf(item)], failed)}
    ELSE IF item.handle # None
           THEN {BlocksOf(DepthFirst(item.handle, item.path, failure), failed)}
           ELSE {BlocksOf(o, failed) :
                   o \in Orderings(ListedFilesUnder(structure, item.path))}

\* the concatenations of the contributions, in the order of the selection
RECURSIVE Documents(_, _, _, _)
Documents(items, structure, failed, failure) ==
  IF items = <<>>
    THEN {<<>>}
    ELSE {a \o b : a \in ItemDocuments(Head(items), structure, failed, failure),
                   b \in Documents(Tail(items), structure, failed, failure)}

\* the files a selection reaches
FilesOf(item, structure, failure) ==
  IF item.type = "file"
    THEN {NodeOf(item)}
    ELSE IF item.handle # None
           THEN LET files == DepthFirst(item.handle, item.path, failure)
                IN {files[i].node : i \in 1 .. Len(files)}
           ELSE {f.node : f \in ListedFilesUnder(structure, item.path)}

FilesReached(items, structure, failure) ==
  UNION {FilesOf(items[i], structure, failure) : i \in 1 .. Len(items)}

\* t is d without the whitespace around it
IsTrimOf(t, d) ==
  \E i \in 1 .. Len(d) + 1, j \in 0 .. Len(d) :
    /\ t = SubSeq(d, i, j)
    /\ \A k \in 1 .. Len(d) : (k < i \/ k > j) => d[k] \in {" ", "\n"}
    /\ t # <<>> => (t[1] \notin {" ", "\n"} /\ t[Len(t)] \notin {" ", "\n"})

Headers(doc) == Cardinality({i \in 1 .. Len(doc) : doc[i] = "==="}) \div 2

\* the step ends a processSelectedFiles call
Completes == proc.active /\ ~proc'.active

\* some read of the call in flight fails
SomeReadFails ==
  FilesReached(proc.selectedItems, proc.structure, proc.unlistable)
    \cap proc.unreadable # {}

\* some enumeration of the call in flight fails
SomeEnumerationFails == proc.unlistable # NoFailure

\* C6: with no read failure the Output Document holds exactly one
\* "=== path ===" header for each distinct file reachable from the selection,
\* in the handle-based and in the upload discovery path.
C6_OneHeaderPerFile ==
  [][(Completes /\ ~SomeReadFails /\ ~SomeEnumerationFails) =>
       Headers(outputContent') =
         Cardinality(FilesReached(proc.selectedItems, proc.structure,
                                  NoFailure))]_vars

C8_ReadFailureIsPerFile ==
  [][(Completes /\ SomeReadFails) =>
       /\ \E d \in Documents(proc.selectedItems, proc.structure, proc.unreadable,
                              proc.unlistable) :
            IsTrimOf(outputContent', d)
       /\ \E i \in 1 .. Len(outputContent') : outputContent'[i] = "[Error"
       /\ last'.toasts = <<>>
       /\ ~isProcessing']_vars

\* the directory t processed by its handle with t/sub/y.txt gone: the marker
\* in the place of its content, then the block of t/x.txt
C8_Witness ==
  /\ last.op = "processItem"
  /\ ~isProcessing
  /\ outputContent =
       <<"===", " ", "t", "/", "sub", "/", "y.txt", " ", "===", "\n",
         "[Error", " ", "reading", " ", "file:", " ", "gone", "]", "\n", "\n",
         "===", " ", "t", "/", "x.txt", " ", "===", "\n", "A">>

\* C9: processSelectedFiles called with an empty Selection Set raises the
\* empty-selection notice once and nothing more: no call is started and
\* nothing is read, the processing flag is not set, and the output content,
\* the Selection Set and the Directory Listing stay as they were.
C9_EmptySelectionOnlyNotifies ==
  [][(selectedItems = <<>> /\ last'.op = "processSelectedFiles") =>
       /\ last'.toasts = <<"Nothing to process">>
       /\ UNCHANGED <<outputContent, selectedItems, directoryStructure,
                      isProcessing, proc, processCalls>>]_vars

\* the notice was raised over an output displayed before and kept
C9_Witness ==
  /\ last.op = "processSelectedFiles"
  /\ last.toasts = <<"Nothing to process">>
  /\ selectedItems = <<>>
  /\ outputContent # <<>>
  /\ ~isProcessing

\* C10 as stated: "clear selection" empties the Selection Set and changes
\* nothing else: Output Document, Directory Listing, root path and expanded
\* folders are after it what they were before it.
C10_ClearSelectionOnly ==
  [][last'.op = "clearSelection" =>
       /\ selectedItems' = <<>>
       /\ UNCHANGED <<outputContent, directoryStructure, rootPath,
                      expandedFolders>>]_vars

\* C10: "clear selection" empties the Selection Set and the output content
\* and changes nothing else: Directory Listing, root path, expanded folders,
\* the processing flag and a call in flight are what they were before it.
C10_ClearSelectionAndOutput ==
  [][last'.op = "clearSelection" =>
       /\ selectedItems' = <<>>
       /\ outputContent' = <<>>
       /\ UNCHANGED <<directoryStructure, rootPath, expandedFolders,
                      isProcessing, proc, scans, scanFailure>>]_vars

\* a selection was cleared under a tree with a folder expanded below the root
C10_Witness ==
  /\ last.op = "clearSelection"
  /\ last.prev # <<>>
  /\ selectedItems = <<>>
  /\ Cardinality(expandedFolders) > 1
  /\ directoryStructure # <<>>

(***************************************************************************)
(* Enumeration failures during a scan.                                     *)
(***************************************************************************)
\* the scan of the first pick is over, and the enumeration of one
\* subdirectory failed in it
ScanOverWithFailure ==
  /\ supported
  /\ picks = 1
  /\ scans = <<>>
  /\ rootPath # <<>>
  /\ scanFailure.dir # None
  /\ scanFailure.dir # ScanRoot

\* the directories above n
RECURSIVE AncestorsOf(_, _)
AncestorsOf(root, n) ==
  IF n = root THEN {} ELSE {ParentOf(n)} \cup AncestorsOf(root, ParentOf(n))

\* the listing has a key that holds exactly the children of d, in order
RecordedWithChildren(structure, d) ==
  \E k \in 1 .. Len(structure) :
    /\ Len(structure[k].items) = Len(NodeChildren[d])
    /\ \A i \in 1 .. Len(NodeChildren[d]) :
         structure[k].items[i].handle = NodeChildren[d][i]

RootedFiles(item) ==
  IF item.type = "file"
    THEN <<[path |-> NamesFrom(ScanRoot, item.handle), node |-> item.handle]>>
    ELSE LET files == DepthFirst(item.handle, item.path, NoFailure)
         IN [i \in 1 .. Len(files) |->
               [path |-> NamesFrom(ScanRoot, files[i].node), node |-> files[i].node]]

RECURSIVE RootedDocument(_)
RootedDocument(items) ==
  IF items = <<>>
    THEN <<>>
    ELSE BlocksOf(RootedFiles(Head(items)), {}) \o RootedDocument(Tail(items))

\* C12: in the document of a handle-based session every file's block has for
\* its header the file's path from the scan root, the path of its Entry,
\* whether the file was selected itself or reached through a selected
\* directory above it.
C12_HeadersArePathsFromScanRoot ==
  [][(/\ Completes
      /\ supported
      /\ picks = 1
      /\ rootPath # <<>>
      /\ ~SomeReadFails
      /\ ~SomeEnumerationFails) =>
       IsTrimOf(outputContent', RootedDocument(proc.selectedItems))]_vars

(***************************************************************************)
(* Sessions: picking again, and reset.                                     *)
(***************************************************************************)
\* the tree view offers entries: rootPath && directoryStructure[rootPath]
OffersEntries == rootPath # <<>> /\ HasKey(directoryStructure, rootPath)

\* C13: in every state in which the UI offers an entry for toggling (the
\* listing has a key equal to the current root path) no scanDirectory call is
\* still in progress, for the first pick and for every later one.
C13_ScanEndsBeforeToggling ==
  OffersEntries => scans = <<>>

\* everything was reset by clearAll and no folder was picked since
ResetAndIdle ==
  /\ picks > 0
  /\ rootPath = <<>>
  /\ directoryStructure = <<>>
  /\ selectedItems = <<>>
  /\ outputContent = <<>>

\* C14: after clearAll the Directory Listing, the Selection Set and the
\* Output Document stay empty until the user next picks a folder or starts a
\* process call, also when a scan or a process call was in flight at the
\* reset.
C14_ResetStaysEmpty ==
  [][(ResetAndIdle /\ last'.op \notin {"selectFolder", "processSelectedFiles"}) =>
       /\ directoryStructure' = <<>>
       /\ selectedItems' = <<>>
       /\ outputContent' = <<>>]_vars

\* an entry or a selected item is of the folder picked last
OfPickedFolder(e) ==
  IF e.handle # None
    THEN e.handle \in ReachableFrom(ScanRoot)
    ELSE e.path[1] = rootPath[1]

\* C15: once the scan of a newly picked folder has completed, the Directory
\* Listing holds only keys and entries of the new folder and the Selection
\* Set holds no item of the folder picked before.
C15_NewPickEndsSession ==
  (picks = 2 /\ scans = <<>> /\ rootPath # <<>>) =>
    /\ \A e \in ListedEntries(directoryStructure) : OfPickedFolder(e)
    /\ Len(directoryStructure) <= Cardinality(DirectoriesFrom(ScanRoot))
    /\ \A i \in 1 .. Len(selectedItems) : OfPickedFolder(selectedItems[i])

(***************************************************************************)
(* Termination of processSelectedFiles.                                    *)
(***************************************************************************)
\* C16: a processSelectedFiles call started with a non-empty selection ends:
\* the processing flag is true from its start to its end and then false
\* again, also when a read or an enumeration fails, and the Output Document
\* is assigned once, at the end, to the document built from the selection as
\* it was when the call started, whatever is toggled while it runs.
C16_ProcessTerminates ==
  /\ [](proc.active <=> isProcessing)
  /\ proc.active ~> ~isProcessing
  /\ [][/\ (~proc.active /\ proc'.active) =>
            (selectedItems # <<>> /\ proc'.selectedItems = selectedItems)
        /\ (proc.active /\ proc'.active) =>
            /\ proc'.selectedItems = proc.selectedItems
            /\ last'.op = "processItem" => outputContent' = outputContent
        /\ Completes =>
            \E d \in Documents(proc.selectedItems, proc.structure,
                               proc.unreadable, proc.unlistable) :
              IsTrimOf(outputContent', d)]_vars

\* a call has ended with the block of the one file it started from, while the
\* Selection Set, toggled during the call, holds two files
C16_Witness ==
  /\ last.op = "processItem"
  /\ ~isProcessing
  /\ Headers(outputContent) = 1
  /\ Len(selectedItems) = 2
  /\ \A i \in 1 .. 2 : selectedItems[i].type = "file"

(***************************************************************************)
(* The Selection Set as a set.                                             *)
(***************************************************************************)
\* C17: after any sequence of toggleItemSelection, clearSelection and
\* clearAll calls the Selection Set never holds two items with the same
\* path, in both discovery paths, also when a directory is selected while
\* some of its descendants are selected already.
C17_NoPathSelectedTwice ==
  \A i, j \in 1 .. Len(selectedItems) :
    i # j => selectedItems[i].path # selectedItems[j].path

\* a directory was selected over a descendant that was selected already, and
\* the cascade brought that descendant in again
C17_Witness ==
  /\ last.op = "toggleItemSelection"
  /\ last.item.type = "directory"
  /\ ~IsSelected(last.prev, last.item.path)
  /\ \E i \in 1 .. Len(last.prev) :
       /\ HasPrefix(last.prev[i].path, last.item.path)
       /\ \E j \in 1 .. Len(selectedItems) :
            /\ selectedItems[j].path = last.prev[i].path
            /\ \E k \in 1 .. (j - 1) : selectedItems[k].path = last.item.path

====
